---- MODULE Spec2Model ----
(***************************************************************************)
(* A model of app.py, the Streamlit transaction viewer.  One behaviour is  *)
(* a sequence of script runs (Streamlit re-executes the whole script, top  *)
(* to bottom, on every user interaction); pc is the position in the        *)
(* script.  Amounts are counted in thousandths of a euro, timestamps in    *)
(* ticks of 1/TicksPerDay of a calendar day; strings that the script       *)
(* formats are sequences of one-character strings ("EUR" stands for the    *)
(* euro sign).                                                             *)
(***************************************************************************)
EXTENDS Integers, Sequences, FiniteSets, TLC

None == "None"

\* ------------------------------------------------------------------ bounds
MaxRows == 3          \* rows of the CSV file
TicksPerDay == 2      \* timestamp ticks per calendar day


\* The rows a CSV file is made of: (day, time of day, Type, Category,
\* Amount in thousandths, Description).  Any string is accepted as Type or
\* Category; "Transfer" is a category without an icon.  -0.605 is a tie of
\* round(x, 2).
RowPool ==
  { [Date |-> [day |-> 1, tod |-> 0], Description |-> "Transfer from Dad",
     Category |-> "Transfer", Type |-> "Income", Amount |-> 667],
    [Date |-> [day |-> 1, tod |-> 1], Description |-> "Supermarket",
     Category |-> "Groceries", Type |-> "Expense", Amount |-> -605],
    [Date |-> [day |-> 2, tod |-> 0], Description |-> "Landlord",
     Category |-> "Transfer", Type |-> "Expense", Amount |-> 0] }

CsvFiles == UNION { [1..n -> RowPool] : n \in 1..MaxRows }

\* the API key is configured in the .env file, not in the environment the
\* process starts with
EnvKeys == {None}
DotenvKeys == {"filekey"}

\* the remote endpoint
Statuses == {200, 500}
BodyOk == "{choices:[{message:{content:answer}}]}"
BodyNoChoices == "{error:quota}"
Bodies == {BodyOk, BodyNoChoices}
Unreachable == [status |-> 0, text |-> "unreachable"]
Responses == [status : Statuses, text : Bodies] \cup {Unreachable}

Queries == {"", "Show me my biggest expenses"}

VARIABLES
  pc,                \* position in the script
  osEnv,             \* os.environ["DEEPSEEK_API_KEY"] of the process
  dotenv,            \* DEEPSEEK_API_KEY in the .env file
  DEEPSEEK_API_KEY,  \* module global, line 10
  csv,               \* the CSV file
  cache,             \* st.cache_data store of load_data
  df,                \* module global, line 75
  posts,             \* POST requests sent in this run
  res,               \* the response to the last POST
  ai_mode, ai_text,  \* module globals, lines 78-79
  types, categories, date_range, start_date, end_date,
  amount_min, amount_max,
  filtered_df,       \* index labels of the rows of the view, in order
  page,              \* the elements rendered in this run, in order
  err                \* the exception that ended the run, if any

vars == <<pc, osEnv, dotenv, DEEPSEEK_API_KEY, csv, cache, df, posts, res,
          ai_mode, ai_text, types, categories, date_range, start_date,
          end_date, amount_min, amount_max, filtered_df, page, err>>

\* ------------------------------------------------------------ arithmetic
Abs(x) == IF x < 0 THEN -x ELSE x

\* Python round(x): nearest integer, halves to the even neighbour
\* (x in thousandths; x.5 is exact in binary floating point)
RoundInt(a) ==
  LET q == a \div 1000
      r == a % 1000
  IN  IF r < 500 THEN q
      ELSE IF r > 500 THEN q + 1
      ELSE IF q % 2 = 0 THEN q ELSE q + 1

\* Python round(x, 2), in hundredths.  On a tie the result depends on the
\* binary representation of x, which thousandths do not carry: up chooses.
IsTie(a) == a % 10 = 5
Round2(a, up) ==
  LET q == a \div 10
      r == a % 10
  IN  IF r < 5 THEN q
      ELSE IF r > 5 THEN q + 1
      ELSE IF up THEN q + 1 ELSE q

Digit(d) == CASE d = 0 -> "0" [] d = 1 -> "1" [] d = 2 -> "2" [] d = 3 -> "3"
              [] d = 4 -> "4" [] d = 5 -> "5" [] d = 6 -> "6" [] d = 7 -> "7"
              [] d = 8 -> "8" [] d = 9 -> "9"

RECURSIVE Digits(_)
Digits(n) == IF n < 10 THEN <<Digit(n)>>
             ELSE Digits(n \div 10) \o <<Digit(n % 10)>>

\* str() of a float that is a whole number of hundredths h (h may be < 0)
FloatStr(h) ==
  LET m == Abs(h)
      f == m % 100
  IN  (IF h < 0 THEN <<"-">> ELSE <<>>)
      \o Digits(m \div 100) \o <<".">>
      \o (IF f % 10 = 0 THEN <<Digit(f \div 10)>>
          ELSE <<Digit(f \div 10), Digit(f % 10)>>)

\* ------------------------------------------------------------- load_data
ToDatetime(d) == d.day * TicksPerDay + d.tod

load_data(file) ==
  [i \in 1..Len(file) |-> [file[i] EXCEPT !.Date = ToDatetime(file[i].Date)]]

\* Series.dt.date / Timestamp.date(): the calendar day of a timestamp
DtDate(ts) == ts \div TicksPerDay

\* -------------------------------------------------------- get_ai_response
NoExc == [type |-> None, status |-> 0, text |-> ""]

\* Response.json() of the bodies the endpoint sends
ParseJson(text) ==
  IF text = BodyOk
    THEN [choices |-> <<[message |-> [content |-> "answer"]]>>]
    ELSE [error |-> "quota"]

\* get_ai_response taking every HTTP response for a success
get_ai_response_AnyStatus(prompt, transactions, user_query, r) ==
  LET request == [url |-> "https://openrouter.ai/api/v1/chat/completions",
                  Authorization |-> <<"Bearer", DEEPSEEK_API_KEY>>,
                  model |-> "deepseek-chat",
                  system |-> prompt,
                  user |-> [Query |-> user_query, Transactions |-> transactions],
                  temperature |-> 2]
      json == ParseJson(r.text)
  IN  IF r = Unreachable
        THEN [posts |-> <<request>>, ret |-> None,
              exc |-> [type |-> "ConnectionError", status |-> 0, text |-> ""]]
      ELSE IF "choices" \in DOMAIN json /\ Len(json.choices) >= 1
        THEN [posts |-> <<request>>,
              ret |-> json.choices[1].message.content, exc |-> NoExc]
        ELSE [posts |-> <<request>>, ret |-> None,
              exc |-> [type |-> "KeyError", status |-> 0, text |-> "choices"]]

\* One call: the POSTs it sends, the value it returns, the exception it raises
get_ai_response(prompt, transactions, user_query, r) ==
  LET request == [url |-> "https://openrouter.ai/api/v1/chat/completions",
                  Authorization |-> <<"Bearer", DEEPSEEK_API_KEY>>,
                  model |-> "deepseek-chat",
                  system |-> prompt,
                  user |-> [Query |-> user_query, Transactions |-> transactions],
                  temperature |-> 2]    \* tenths
      json == ParseJson(r.text)
  IN  IF r = Unreachable
        THEN [posts |-> <<request>>, ret |-> None,
              exc |-> [type |-> "ConnectionError", status |-> 0, text |-> ""]]
      ELSE IF r.status = 200
        THEN IF "choices" \in DOMAIN json /\ Len(json.choices) >= 1
               THEN [posts |-> <<request>>,
                     ret |-> json.choices[1].message.content, exc |-> NoExc]
               ELSE [posts |-> <<request>>, ret |-> None,
                     exc |-> [type |-> "KeyError", status |-> 0,
                              text |-> "choices"]]
      ELSE [posts |-> <<request>>, ret |-> None,
            exc |-> [type |-> "RuntimeError", status |-> r.status,
                     text |-> r.text]]

\* --------------------------------------------------------- page elements
Markdown(text) == [kind |-> "markdown", text |-> text]
ErrorEl(e) == [kind |-> "error", exc |-> e]
SubheaderEl == [kind |-> "subheader"]
BannerEl == [kind |-> "banner"]
HeaderEl(day) == [kind |-> "header", date |-> day]
InfoEl == [kind |-> "info", text |-> "No transactions found."]
CardEl(i, emoji, label, color, amount) ==
  [kind |-> "card", row |-> i, emoji |-> emoji, label |-> label,
   color |-> color, amount |-> amount]

get_category_emoji(category) ==
  CASE category = "Groceries" -> "shopping_bags"
    [] category = "Subscription" -> "calendar"
    [] category = "Transport" -> "metro"
    [] category = "Bar" -> "beer"
    [] category = "Restaurant" -> "plate"
    [] category = "Entertainment" -> "game"
    [] category = "Online Purchase" -> "laptop"
    [] category = "Utilities" -> "bulb"
    [] category = "Income" -> "money_bag"
    [] OTHER -> "credit_card"

\* ------------------------------------------------------------ the script
Init ==
  /\ pc = "import"
  /\ osEnv \in EnvKeys
  /\ dotenv \in DotenvKeys
  /\ DEEPSEEK_API_KEY = None
  /\ csv \in CsvFiles
  /\ cache = <<>>
  /\ df = <<>>
  /\ posts = <<>>
  /\ res = Unreachable
  /\ ai_mode = FALSE
  /\ ai_text = None
  /\ types = {}
  /\ categories = {}
  /\ date_range = [tuple |-> TRUE, ds |-> <<>>]
  /\ start_date = [kind |-> "Timestamp", vs |-> <<0>>]
  /\ end_date = [kind |-> "Timestamp", vs |-> <<0>>]
  /\ amount_min = 0
  /\ amount_max = 0
  /\ filtered_df = <<>>
  /\ page = <<>>
  /\ err = None

\* line 10: DEEPSEEK_API_KEY = os.getenv("DEEPSEEK_API_KEY")
Import ==
  /\ pc = "import"
  /\ DEEPSEEK_API_KEY' = osEnv
  /\ pc' = "dotenv"
  /\ UNCHANGED <<osEnv, dotenv, csv, cache, df, posts, res, ai_mode, ai_text,
                 types, categories, date_range, start_date, end_date,
                 amount_min, amount_max, filtered_df, page, err>>

\* line 36: load_dotenv() sets the variables the environment does not have
LoadDotenv ==
  /\ pc = "dotenv"
  /\ osEnv' = IF osEnv = None THEN dotenv ELSE osEnv
  /\ pc' = "load"
  /\ UNCHANGED <<dotenv, DEEPSEEK_API_KEY, csv, cache, df, posts, res, ai_mode,
                 ai_text, types, categories, date_range, start_date, end_date,
                 amount_min, amount_max, filtered_df, page, err>>

\* lines 74-75: df = load_data(), memoized by st.cache_data
\* (the style sheet is present)
LoadData ==
  /\ pc = "load"
  /\ cache' = IF cache = <<>> THEN load_data(csv) ELSE cache
  /\ df' = cache'
  /\ pc' = "ai"
  /\ UNCHANGED <<osEnv, dotenv, DEEPSEEK_API_KEY, csv, posts, res, ai_mode,
                 ai_text, types, categories, date_range, start_date, end_date,
                 amount_min, amount_max, filtered_df, page, err>>

\* lines 77-99: the AI assistant section
AiSection ==
  /\ pc = "ai"
  /\ \E ai_query \in Queries :
       IF ai_query = ""
         THEN /\ ai_mode' = FALSE
              /\ ai_text' = None
              /\ page' = page \o <<SubheaderEl>>
              /\ UNCHANGED <<posts, res>>
         ELSE \E r \in Responses :
                LET out == get_ai_response("prompt", df, ai_query, r)
                IN  /\ posts' = posts \o out.posts
                    /\ res' = r
                    /\ IF out.exc = NoExc
                         THEN /\ ai_text' = out.ret
                              /\ ai_mode' = TRUE
                              /\ page' = page \o <<SubheaderEl,
                                                   Markdown("AI Search Result"),
                                                   Markdown(out.ret)>>
                         ELSE /\ ai_text' = None
                              /\ ai_mode' = FALSE
                              /\ page' = page \o <<SubheaderEl,
                                                   ErrorEl(out.exc)>>
  /\ pc' = "banner"
  /\ UNCHANGED <<osEnv, dotenv, DEEPSEEK_API_KEY, csv, cache, df, types,
                 categories, date_range, start_date, end_date, amount_min,
                 amount_max, filtered_df, err>>

\* lines 101-110: the top banner
Banner ==
  /\ pc = "banner"
  /\ page' = page \o <<BannerEl>>
  /\ pc' = "sidebar"
  /\ UNCHANGED <<osEnv, dotenv, DEEPSEEK_API_KEY, csv, cache, df, posts, res,
                 ai_mode, ai_text, types, categories, date_range, start_date,
                 end_date, amount_min, amount_max, filtered_df, err>>

\* ------------------------------------------------------- sidebar widgets
MinOf(S) == CHOOSE x \in S : \A y \in S : x <= y
MaxOf(S) == CHOOSE x \in S : \A y \in S : x >= y

TypeOptions == {df[i].Type : i \in 1..Len(df)}
CategoryOptions == {df[i].Category : i \in 1..Len(df)}
min_date == MinOf({df[i].Date : i \in 1..Len(df)})
max_date == MaxOf({df[i].Date : i \in 1..Len(df)})
min_amt == MinOf({df[i].Amount : i \in 1..Len(df)})
max_amt == MaxOf({df[i].Amount : i \in 1..Len(df)})

\* st.date_input with a pair as value: the bounds and the value are
\* calendar dates; it returns a pair, a 1-tuple while the user has picked
\* only the first day, or (widgets given a single value) a bare date
DateInputs(lo, hi) ==
  UNION {{[tuple |-> TRUE, ds |-> <<a, b>>] : b \in a..hi} : a \in lo..hi}
  \cup {[tuple |-> TRUE, ds |-> <<a>>] : a \in lo..hi}
  \cup {[tuple |-> FALSE, ds |-> <<a>>] : a \in lo..hi}

\* pd.to_datetime of a date is a Timestamp (midnight of that day); of a
\* tuple of dates it is a DatetimeIndex of the same length
pd_to_datetime(x) ==
  IF x.tuple
    THEN [kind |-> "DatetimeIndex",
          vs |-> [i \in 1..Len(x.ds) |-> x.ds[i] * TicksPerDay]]
    ELSE [kind |-> "Timestamp", vs |-> <<x.ds[1] * TicksPerDay>>]

Date(d) == [tuple |-> FALSE, ds |-> <<d>>]

\* lines 121-124: one-date or two-date cases
StartEnd(dr) ==
  IF dr.tuple /\ Len(dr.ds) = 2
    THEN <<pd_to_datetime(Date(dr.ds[1])), pd_to_datetime(Date(dr.ds[2]))>>
    ELSE <<pd_to_datetime(dr), pd_to_datetime(dr)>>

\* lines 113-127: the sidebar filters
Sidebar ==
  /\ pc = "sidebar"
  /\ types' \in SUBSET TypeOptions
  /\ categories' \in SUBSET CategoryOptions
  /\ \E dr \in DateInputs(DtDate(min_date), DtDate(max_date)) :
       /\ date_range' = dr
       /\ start_date' = StartEnd(dr)[1]
       /\ end_date' = StartEnd(dr)[2]
  /\ \E a \in RoundInt(min_amt)..RoundInt(max_amt) :
       \E b \in a..RoundInt(max_amt) :
         /\ amount_min' = a
         /\ amount_max' = b
  /\ pc' = "filter"
  /\ UNCHANGED <<osEnv, dotenv, DEEPSEEK_API_KEY, csv, cache, df, posts, res,
                 ai_mode, ai_text, filtered_df, page, err>>

\* --------------------------------------------------------- filter engine
\* Series compared with a Timestamp broadcasts; compared with an array it
\* needs equal lengths ("Lengths must match to compare") and is elementwise
LengthsMatch(rhs) == rhs.kind = "Timestamp" \/ Len(rhs.vs) = Len(df)
Rhs(rhs, i) == IF rhs.kind = "Timestamp" THEN rhs.vs[1] ELSE rhs.vs[i]

\* the filter comparing the signed amount with the slider
Mask_SignedAmount(i) ==
  /\ df[i].Type \in types
  /\ df[i].Category \in categories
  /\ df[i].Date >= Rhs(start_date, i)
  /\ df[i].Date <= Rhs(end_date, i)
  /\ df[i].Amount >= amount_min * 1000
  /\ df[i].Amount <= amount_max * 1000

Mask(i) ==
  /\ df[i].Type \in types
  /\ df[i].Category \in categories
  /\ df[i].Date >= Rhs(start_date, i)
  /\ df[i].Date <= Rhs(end_date, i)
  /\ Abs(df[i].Amount) >= amount_min * 1000
  /\ Abs(df[i].Amount) <= amount_max * 1000

Index == [i \in 1..Len(df) |-> i]

\* lines 130-137
Filter ==
  /\ pc = "filter"
  /\ IF LengthsMatch(start_date) /\ LengthsMatch(end_date)
       THEN /\ filtered_df' = SelectSeq(Index, LAMBDA i : Mask(i))
            /\ pc' = "render"
            /\ err' = err
       ELSE /\ err' = "ValueError"
            /\ pc' = "crashed"
            /\ filtered_df' = filtered_df
  /\ UNCHANGED <<osEnv, dotenv, DEEPSEEK_API_KEY, csv, cache, df, posts, res,
                 ai_mode, ai_text, types, categories, date_range, start_date,
                 end_date, amount_min, amount_max, page>>

\* ------------------------------------------------------ grouping/rendering
Range(s) == {s[i] : i \in 1..Len(s)}

\* sort_values("Date", ascending=False) with the default kind="quicksort",
\* which is not stable: any order of the view that is descending by Date
sort_values(view) ==
  {s \in [1..Len(view) -> Range(view)] :
     /\ Range(s) = Range(view)
     /\ \A i \in 1..(Len(s) - 1) : df[s[i]].Date >= df[s[i + 1]].Date}

\* groupby keyed by the timestamp instead of the calendar date
RECURSIVE GroupKeys_ByTimestamp(_)
GroupKeys_ByTimestamp(view) ==
  IF view = <<>> THEN <<>>
  ELSE LET t == df[view[1]].Date
       IN  <<DtDate(t)>>
           \o GroupKeys_ByTimestamp(SelectSeq(Tail(view),
                                              LAMBDA i : df[i].Date # t))

\* groupby(Date.dt.date, sort=False): the keys in order of first appearance
RECURSIVE GroupKeys(_)
GroupKeys(view) ==
  IF view = <<>> THEN <<>>
  ELSE LET k == DtDate(df[view[1]].Date)
       IN  <<k>> \o GroupKeys(SelectSeq(Tail(view),
                                        LAMBDA i : DtDate(df[i].Date) # k))

Group(view, k) == SelectSeq(view, LAMBDA i : DtDate(df[i].Date) = k)

\* the amount shown without abs()
AmountStr_NoAbs(a, up) ==
  (IF a > 0 THEN <<"+">> ELSE <<>>) \o FloatStr(Round2(a, up)) \o <<"EUR">>

\* line 153
AmountStr(a, up) ==
  (IF a > 0 THEN <<"+">> ELSE <<>>) \o FloatStr(Abs(Round2(a, up))) \o <<"EUR">>

Card(i, up) ==
  CardEl(i, get_category_emoji(df[i].Category), df[i].Description,
         IF df[i].Amount > 0 THEN "lightgreen" ELSE "salmon",
         AmountStr(df[i].Amount, up))

RECURSIVE Cards(_, _)
Cards(group, up) ==
  IF group = <<>> THEN <<>>
  ELSE <<Card(group[1], up[group[1]])>> \o Cards(Tail(group), up)

RECURSIVE RenderGroups(_, _, _)
RenderGroups(keys, view, up) ==
  IF keys = <<>> THEN <<>>
  ELSE <<HeaderEl(keys[1])>> \o Cards(Group(view, keys[1]), up)
       \o RenderGroups(Tail(keys), view, up)

\* lines 139-158
Render ==
  /\ pc = "render"
  /\ IF filtered_df # <<>>
       THEN \E sorted \in sort_values(filtered_df) :
            \E up \in [1..Len(df) -> BOOLEAN] :
              /\ \A i \in 1..Len(df) : up[i] => IsTie(df[i].Amount)
              /\ filtered_df' = sorted
              /\ page' = page \o RenderGroups(GroupKeys(sorted), sorted, up)
       ELSE /\ page' = page \o <<InfoEl>>
            /\ filtered_df' = filtered_df
  /\ pc' = "done"
  /\ UNCHANGED <<osEnv, dotenv, DEEPSEEK_API_KEY, csv, cache, df, posts, res,
                 ai_mode, ai_text, types, categories, date_range, start_date,
                 end_date, amount_min, amount_max, err>>

\* a user interaction: Streamlit runs the script again in the same process
Rerun ==
  /\ pc \in {"done", "crashed"}
  /\ pc' = "import"
  /\ df' = <<>>
  /\ posts' = <<>>
  /\ res' = Unreachable
  /\ ai_mode' = FALSE
  /\ ai_text' = None
  /\ types' = {}
  /\ categories' = {}
  /\ date_range' = [tuple |-> TRUE, ds |-> <<>>]
  /\ start_date' = [kind |-> "Timestamp", vs |-> <<0>>]
  /\ end_date' = [kind |-> "Timestamp", vs |-> <<0>>]
  /\ amount_min' = 0
  /\ amount_max' = 0
  /\ filtered_df' = <<>>
  /\ page' = <<>>
  /\ err' = None
  /\ UNCHANGED <<osEnv, dotenv, DEEPSEEK_API_KEY, csv, cache>>

Next ==
  \/ Import
  \/ LoadDotenv
  \/ LoadData
  \/ AiSection
  \/ Banner
  \/ Sidebar
  \/ Filter
  \/ Render
  \/ Rerun

Spec == Init /\ [][Next]_vars

\* ================================================================ claims
Filtered == pc \in {"render", "done"}
Finished == pc \in {"done", "crashed"}
Rows == 1..Len(df)
At(kind) == {p \in 1..Len(page) : page[p].kind = kind}
ListPart == SelectSeq(page, LAMBDA e : e.kind \in {"header", "card", "info"})
Scalar(x) == x.vs[1]

\* the four predicates of the filter contract, on a row of the table
Passes(i) ==
  /\ df[i].Type \in types
  /\ df[i].Category \in categories
  /\ Scalar(start_date) <= df[i].Date
  /\ df[i].Date <= Scalar(end_date)
  /\ amount_min * 1000 <= Abs(df[i].Amount)
  /\ Abs(df[i].Amount) <= amount_max * 1000

\* C1: the filtered view holds exactly the rows of the table whose Type and
\* Category are selected, whose Date is in [start_date, end_date] and whose
\* absolute Amount is in [amount_min, amount_max], all bounds inclusive,
\* each once.
C1_FilterExact ==
  Filtered =>
    /\ Range(filtered_df) = {i \in Rows : Passes(i)}
    /\ Len(filtered_df) = Cardinality(Range(filtered_df))

\* a view that keeps one row and drops another
C1_Witness ==
  /\ pc = "render"
  /\ filtered_df # <<>>
  /\ Len(filtered_df) < Len(df)

\* C2: a date-range control that yields a single date (a bare date or a
\* 1-tuple) gives start_date = end_date = that date, a view of that
\* calendar day only, and a run without an error.
SingleDate == Len(date_range.ds) = 1
C2_SingleDate ==
  (pc \in {"filter", "render", "done", "crashed"} /\ SingleDate) =>
    /\ start_date.vs = <<date_range.ds[1] * TicksPerDay>>
    /\ end_date = start_date
    /\ err = None
    /\ Filtered =>
         \A k \in 1..Len(filtered_df) :
           DtDate(df[filtered_df[k]].Date) = date_range.ds[1]

\* C3: for a non-empty view every filtered row is rendered as exactly one
\* card, under the header of its calendar date; the headers are strictly
\* descending, so no date heads two groups.
C3_Groups ==
  (pc = "done" /\ filtered_df # <<>>) =>
    /\ At("info") = {}
    /\ Cardinality(At("card")) = Cardinality({i \in Rows : Mask(i)})
    /\ \A i \in Range(filtered_df) :
         Cardinality({c \in At("card") : page[c].row = i}) = 1
    /\ \A h1 \in At("header") : \A h2 \in At("header") :
         h1 < h2 => page[h1].date > page[h2].date
    /\ \A h \in At("header") : h + 1 \in At("card")
    /\ \A c \in At("card") :
         /\ \E h \in At("header") : h < c
         /\ LET h == MaxOf({x \in At("header") : x < c})
            IN  page[h].date = DtDate(df[page[c].row].Date)

\* two rows of one calendar day with different timestamps, rendered
C3_Witness ==
  /\ pc = "done"
  /\ \E i \in Range(filtered_df) : \E j \in Range(filtered_df) :
       /\ df[i].Date # df[j].Date
       /\ DtDate(df[i].Date) = DtDate(df[j].Date)

\* C4: with no type or no category selected the view is empty for every
\* table, and the run renders the notice, no header, no card, no error.
C4_EmptySelection ==
  (Finished /\ (types = {} \/ categories = {})) =>
    /\ filtered_df = <<>>
    /\ ListPart = <<InfoEl>>
    /\ err = None

\* C5: a card shows sign, |amount rounded to 2 decimals| and the euro sign;
\* the sign is "+" exactly for an amount > 0, the colour lightgreen exactly
\* for an amount > 0 and salmon otherwise; there is never a "-".
DigitVal(c) == CHOOSE d \in 0..9 : Digit(d) = c
IsDigit(c) == \E d \in 0..9 : Digit(d) = c
RECURSIVE Number(_)
Number(s) == IF s = <<>> THEN 0
             ELSE 10 * Number(SubSeq(s, 1, Len(s) - 1)) + DigitVal(s[Len(s)])

\* the value, in hundredths, of a string of digits with one point
Hundredths(s) ==
  LET dot == CHOOSE k \in 1..Len(s) : s[k] = "."
      frac == SubSeq(s, dot + 1, Len(s))
  IN  100 * Number(SubSeq(s, 1, dot - 1))
      + (IF Len(frac) = 1 THEN 10 * Number(frac) ELSE Number(frac))

WellFormedNumber(s) ==
  /\ Cardinality({k \in 1..Len(s) : s[k] = "."}) = 1
  /\ \A k \in 1..Len(s) : s[k] = "." \/ IsDigit(s[k])
  /\ LET dot == CHOOSE k \in 1..Len(s) : s[k] = "."
     IN  dot > 1 /\ Len(s) - dot \in {1, 2}

ShownRight(a, shown, color) ==
  LET body == IF a > 0 THEN Tail(shown) ELSE shown
      num == SubSeq(body, 1, Len(body) - 1)
  IN  /\ (a > 0) => shown[1] = "+"
      /\ body # <<>> /\ body[Len(body)] = "EUR"
      /\ WellFormedNumber(num)
      /\ 10 * Hundredths(num) - Abs(a) \in -5..5
      /\ color = IF a > 0 THEN "lightgreen" ELSE "salmon"

C5_AmountFormat ==
  /\ AmountStr(-45600, FALSE) = <<"4", "5", ".", "6", "EUR">>
  /\ AmountStr(783333, FALSE) = <<"+", "7", "8", "3", ".", "3", "3", "EUR">>
  /\ \A c \in At("card") :
       ShownRight(df[page[c].row].Amount, page[c].amount, page[c].color)

\* a positive, a negative and a zero amount on the page
C5_Witness ==
  /\ \E c \in At("card") : df[page[c].row].Amount > 0
  /\ \E c \in At("card") : df[page[c].row].Amount < 0
  /\ \E c \in At("card") : df[page[c].row].Amount = 0

\* C6: a call sends exactly one POST; a 200 response yields its completion
\* text verbatim; any other status yields no text and an error that
\* carries the status code and the response body.
Called == posts # <<>>
C6_Bridge ==
  Called =>
    /\ Len(posts) = 1
    /\ (res.status = 200 /\ "choices" \in DOMAIN ParseJson(res.text)) =>
         /\ ai_text = ParseJson(res.text).choices[1].message.content
         /\ At("error") = {}
    /\ (res # Unreachable /\ res.status # 200) =>
         /\ ai_text = None
         /\ \E e \in At("error") :
              page[e].exc = [type |-> "RuntimeError", status |-> res.status,
                             text |-> res.text]

\* a call answered with a status other than 200
C6_Witness ==
  /\ Called
  /\ res # Unreachable
  /\ res.status # 200
  /\ res.text = BodyOk

\* C7: the list of headers and cards is the one the table and the
\* selection determine, whatever the AI query did; an AI failure is shown
\* as one inline error, and the banner and the list are still rendered.
AiFailed ==
  Called /\ (res = Unreachable \/ res.status # 200 \/ res.text # BodyOk)
ListOutcomes ==
  LET view == SelectSeq(Index, LAMBDA i : Mask(i))
  IN  IF view = <<>> THEN {<<InfoEl>>}
      ELSE {RenderGroups(GroupKeys(s), s, up) :
              s \in sort_values(view), up \in [Rows -> BOOLEAN]}
C7_AiIsolated ==
  /\ (AiFailed /\ pc \notin {"import", "dotenv", "load", "ai"}) =>
       /\ Cardinality(At("error")) = 1
       /\ page[2].kind = "error"
  /\ Finished =>
       /\ At("banner") # {}
       /\ ListPart \in ListOutcomes

\* C8: within every rendered date group the cards are in the order of the
\* rows of the loaded table.
C8_StableOrder ==
  pc = "done" =>
    \A c1 \in At("card") : \A c2 \in At("card") :
      (c1 < c2 /\ DtDate(df[page[c1].row].Date) = DtDate(df[page[c2].row].Date))
        => page[c1].row < page[c2].row

\* C9: with the selection the sidebar starts with (all types, all
\* categories, first to last date, the full slider) the view is the table.
DefaultSelection ==
  /\ types = TypeOptions
  /\ categories = CategoryOptions
  /\ date_range = [tuple |-> TRUE,
                   ds |-> <<DtDate(min_date), DtDate(max_date)>>]
  /\ amount_min = RoundInt(min_amt)
  /\ amount_max = RoundInt(max_amt)
C9_DefaultShowsAll ==
  (Filtered /\ DefaultSelection) => Range(filtered_df) = Rows

\* C10: the bearer token of every request is the API key configured for
\* the process, a key that only the .env file holds included.
C10_ConfiguredKey ==
  \A k \in 1..Len(posts) : posts[k].Authorization = <<"Bearer", osEnv>>

====
